---- MODULE Spec2Model ----
(***************************************************************************)
(* Type synthesis for MIR rvalues (liquid-rust-tycheck, synth/rvalue.rs)   *)
(* and equality of the parser's Variable (liquid-rust-parser, ast.rs).     *)
(*                                                                         *)
(* Rvalue::synth is a pure function of the rvalue and the environment.     *)
(* The inputs are drawn in Init; one action per match arm applies the      *)
(* function and records the outcome together with the sequence of calls   *)
(* the arm made (operand synthesis, shape_eq, has_base, resolve_operand).  *)
(***************************************************************************)
EXTENDS Integers, Sequences, FiniteSets, TLC

VARIABLES
    rvalue,     \* the Rvalue being synthesized (self)
    env,        \* the Env: binding of every local
    result,     \* outcome of Rvalue::synth: NotRun, Ok(ty), Err(e) or Panic
    calls,      \* calls made by Rvalue::synth, in order
    va, vb,     \* two parser Variables
    cmp         \* outcome of comparing / hashing va and vb

vars == <<rvalue, env, result, calls, va, vb, cmp>>

----------------------------------------------------------------------------
(* Bounds *)

\* Func types in the environment have 0..MaxArity parameters.
MaxArity == 1
\* Source spans of parser variables have start and end in 0..MaxPos.
MaxPos == 1

----------------------------------------------------------------------------
(* Base types, operators, literals, operands *)

Signs == {"Signed", "Unsigned"}
Sizes == {32, 64}

BoolTy == [tag |-> "Bool"]
IntTy(sign, size) == [tag |-> "Int", sign |-> sign, size |-> size]

IntTys == {IntTy(sign, size) : sign \in Signs, size \in Sizes}
BaseTys == {BoolTy} \cup IntTys

ArithTags == {"Add", "Sub", "Mul", "Div", "Rem"}
LogicTags == {"And", "Or"}
EqTags    == {"Eq", "Neq"}
OrdTags   == {"Lt", "Gt", "Lte", "Gte"}

\* BinOp: the tag plus the parameters the tag carries.
BinOps ==
    [tag : ArithTags \cup OrdTags, sign : Signs, size : Sizes]
    \cup [tag : LogicTags]
    \cup [tag : EqTags, ty : BaseTys]

\* BinOps the lowering to MIR can produce.
MirBinOps == {o \in BinOps : o.tag \notin LogicTags}

UnOps == [tag : {"Neg"}, sign : Signs, size : Sizes] \cup {[tag |-> "Not"]}

IntLit(n, sign, size) == [tag |-> "Int", val |-> n, sign |-> sign, size |-> size]
BoolLit(b) == [tag |-> "Bool", b |-> b]

Literals == {IntLit(5, sign, size) : sign \in Signs, size \in Sizes}
            \cup {BoolLit(TRUE)}

LitBase(lit) == IF lit.tag = "Bool" THEN BoolTy ELSE IntTy(lit.sign, lit.size)

Locals == {"x", "y"}

Constant(lit) == [tag |-> "Constant", lit |-> lit]
Local(l) == [tag |-> "Local", local |-> l]

Operands == {Constant(lit) : lit \in Literals} \cup {Local(l) : l \in Locals}

Rvalues ==
    [tag : {"Use"}, op : Operands]
    \cup [tag : {"UnApp"}, un_op : UnOps, op : Operands]
    \cup [tag : {"BinApp"}, bin_op : BinOps, op1 : Operands, op2 : Operands]

----------------------------------------------------------------------------
(* Predicates and types *)

Bound == [tag |-> "Bound"]
VarLocal(l) == [tag |-> "Local", local |-> l]

PVar(v) == [tag |-> "Var", var |-> v]
PLit(lit) == [tag |-> "Lit", lit |-> lit]
UnaryOp(un_op, p) == [tag |-> "UnaryOp", op |-> un_op, arg |-> p]
BinaryOp(bin_op, p, q) == [tag |-> "BinaryOp", op |-> bin_op, lhs |-> p, rhs |-> q]

\* Predicate::eq: self == rhs at base type ty.
PredEq(lhs, ty, rhs) == BinaryOp([tag |-> "Eq", ty |-> ty], lhs, rhs)

Base(base) == [tag |-> "Base", base |-> base]
Refined(base, pred) == [tag |-> "Refined", base |-> base, pred |-> pred]
Func(params, ret) == [tag |-> "Func", params |-> params, ret |-> ret]

\* The refinements carried by the types bound in the environment.
TruePred == PLit(BoolLit(TRUE))
SelfPred == BinaryOp([tag |-> "Eq", ty |-> BoolTy], PVar(Bound), PVar(Bound))
EnvPreds == {TruePred, SelfPred}

ScalarTys == {Base(b) : b \in BaseTys}
             \cup {Refined(b, p) : b \in BaseTys, p \in EnvPreds}
ParamTys == {Refined(BoolTy, TruePred), Refined(IntTy("Signed", 32), TruePred)}

SeqsUpTo(S, n) == UNION {[1..k -> S] : k \in 0..n}

FuncTys == {Func(ps, r) : ps \in SeqsUpTo(ParamTys, MaxArity), r \in ParamTys}

\* What the environment records for a local: its type, or that the operand
\* rule cannot give it one.
Untypable == [tag |-> "Untypable"]
Bindings == ScalarTys \cup FuncTys \cup {Untypable}

Envs == [Locals -> Bindings]

----------------------------------------------------------------------------
(* Type model: Ty::has_base and Ty::shape_eq *)

\* A type has base b iff it is a base or refined type whose base type is b; a
\* function type has no base.
has_base(ty, b) == ty.tag \in {"Base", "Refined"} /\ ty.base = b

\* Shape equality erases the predicates: base and refined types agree on the
\* base type,
\* function types agree on arity, on each parameter's shape and on the return
\* shape.
RECURSIVE shape_eq(_, _)
shape_eq(ty1, ty2) ==
    CASE ty1.tag \in {"Base", "Refined"} /\ ty2.tag \in {"Base", "Refined"} ->
            ty1.base = ty2.base
      [] ty1.tag = "Func" /\ ty2.tag = "Func" ->
            /\ Len(ty1.params) = Len(ty2.params)
            /\ \A i \in 1..Len(ty1.params) :
                    shape_eq(ty1.params[i], ty2.params[i])
            /\ shape_eq(ty1.ret, ty2.ret)
      [] OTHER -> FALSE

----------------------------------------------------------------------------
(* Results *)

Ok(ty) == [tag |-> "Ok", ty |-> ty]
Err(kind) == [tag |-> "Err", kind |-> kind, span |-> <<>>]
Panic == [tag |-> "Panic"]
Passed == [tag |-> "Passed"]
NotRun == [tag |-> "NotRun"]

BaseMismatch(expected, found) ==
    [tag |-> "BaseMismatch", expected |-> expected, found |-> found]
ShapeMismatch(expected, found) ==
    [tag |-> "ShapeMismatch", expected |-> expected, found |-> found]
\* The error of the operand rule for an operand it cannot type.
OperandError(operand) == [tag |-> "OperandError", operand |-> operand]

\* What a call of synth yields: the outcome and the calls it made, in order.
Ret(out, cs) == [out |-> out, calls |-> cs]

----------------------------------------------------------------------------
(* Environment and the operand rule *)

\* Env::resolve_operand: a literal becomes a literal term, a local becomes the
\* variable naming it. Every local of Locals is bound in every environment of
\* Envs, so the abort on an unbound local does not arise.
resolve_operand(e, operand) ==
    IF operand.tag = "Constant"
      THEN PLit(operand.lit)
      ELSE PVar(VarLocal(operand.local))

\* Operand::synth: a literal has the singleton type of its base type, a local
\* the type the environment binds it to.
operand_synth(operand, e) ==
    IF operand.tag = "Constant"
      THEN Ok(Refined(LitBase(operand.lit),
                      PredEq(PVar(Bound), LitBase(operand.lit), PLit(operand.lit))))
      ELSE IF e[operand.local] = Untypable
             THEN Err(OperandError(operand))
             ELSE Ok(e[operand.local])

----------------------------------------------------------------------------
(* Rvalue::synth *)

Sig(param_ty, ret_ty) == [tag |-> "Sig", param_ty |-> param_ty, ret_ty |-> ret_ty]
Unreachable == [tag |-> "Unreachable"]

\* (param_ty, ret_ty) of a unary operator.
UnOpSig(un_op) ==
    CASE un_op.tag = "Neg" ->
            Sig(IntTy(un_op.sign, un_op.size), IntTy(un_op.sign, un_op.size))
      [] un_op.tag = "Not" -> Sig(BoolTy, BoolTy)

\* Faulty variant of BinOpSig: the ordering operators return an integer, as
\* the arithmetic ones do.
BinOpSig_OrderingReturnsInt(bin_op) ==
    CASE bin_op.tag \in {"Add", "Sub", "Mul", "Div", "Rem"} ->
            Sig(IntTy(bin_op.sign, bin_op.size), IntTy(bin_op.sign, bin_op.size))
      [] bin_op.tag \in {"And", "Or"} -> Unreachable
      [] bin_op.tag \in {"Eq", "Neq"} -> Sig(bin_op.ty, BoolTy)
      [] bin_op.tag \in {"Lt", "Gt", "Lte", "Gte"} ->
            Sig(IntTy(bin_op.sign, bin_op.size), IntTy(bin_op.sign, bin_op.size))

\* Faulty variant of BinOpSig: And and Or are given the signature of boolean
\* operators instead of being unreachable.
BinOpSig_LogicalTyped(bin_op) ==
    CASE bin_op.tag \in {"Add", "Sub", "Mul", "Div", "Rem"} ->
            Sig(IntTy(bin_op.sign, bin_op.size), IntTy(bin_op.sign, bin_op.size))
      [] bin_op.tag \in {"And", "Or"} -> Sig(BoolTy, BoolTy)
      [] bin_op.tag \in {"Eq", "Neq"} -> Sig(bin_op.ty, BoolTy)
      [] bin_op.tag \in {"Lt", "Gt", "Lte", "Gte"} ->
            Sig(IntTy(bin_op.sign, bin_op.size), BoolTy)

\* (op_ty, ret_ty) of a binary operator; unreachable!() for And and Or.
BinOpSig(bin_op) ==
    CASE bin_op.tag \in {"Add", "Sub", "Mul", "Div", "Rem"} ->
            Sig(IntTy(bin_op.sign, bin_op.size), IntTy(bin_op.sign, bin_op.size))
      [] bin_op.tag \in {"And", "Or"} -> Unreachable
      [] bin_op.tag \in {"Eq", "Neq"} -> Sig(bin_op.ty, BoolTy)
      [] bin_op.tag \in {"Lt", "Gt", "Lte", "Gte"} ->
            Sig(IntTy(bin_op.sign, bin_op.size), BoolTy)

\* Rvalue::Use(operand) => operand.synth(env)
SynthUse(operand, e) == Ret(operand_synth(operand, e), <<"synth op">>)

\* Faulty variant of UnAppCheck: the error reports the bare base type of a
\* scalar operand instead of its whole type.
UnAppCheck_FoundBaseOnly(param_ty, op_ty1) ==
    IF ~has_base(op_ty1, param_ty)
      THEN Ret(Err(BaseMismatch(param_ty,
                                IF op_ty1.tag = "Func" THEN op_ty1
                                                       ELSE Base(op_ty1.base))),
               <<"has_base">>)
      ELSE Ret(Passed, <<"has_base">>)

\* UnApp: the operand's type must have the operator's parameter type as base.
UnAppCheck(param_ty, op_ty1) ==
    IF ~has_base(op_ty1, param_ty)
      THEN Ret(Err(BaseMismatch(param_ty, op_ty1)), <<"has_base">>)
      ELSE Ret(Passed, <<"has_base">>)

\* Faulty variant of UnAppResult: the operator is left out of the predicate.
UnAppResult_OperatorDropped(un_op, ret_ty, op, e) ==
    LET p == resolve_operand(e, op)
    IN  Ret(Ok(Refined(ret_ty, PredEq(PVar(Bound), ret_ty, p))),
            <<"resolve op">>)

\* UnApp: resolve the operand and return { b : B | b == (un_op op) }.
UnAppResult(un_op, ret_ty, op, e) ==
    LET p == resolve_operand(e, op)
    IN  Ret(Ok(Refined(ret_ty, PredEq(PVar(Bound), ret_ty, UnaryOp(un_op, p)))),
            <<"resolve op">>)

\* Rvalue::UnApp(un_op, op)
SynthUnApp(un_op, op, e) ==
    LET sig == UnOpSig(un_op)
        op_ty1 == operand_synth(op, e)
        check == UnAppCheck(sig.param_ty, op_ty1.ty)
        res == UnAppResult(un_op, sig.ret_ty, op, e)
    IN  IF op_ty1.tag = "Err"
          THEN Ret(op_ty1, <<"synth op">>)
        ELSE IF check.out.tag = "Err"
          THEN Ret(check.out, <<"synth op">> \o check.calls)
        ELSE Ret(res.out, <<"synth op">> \o check.calls \o res.calls)

\* Faulty variant of BinAppOperands: the right operand is synthesized first.
BinAppOperands_RightFirst(op1, op2, e) ==
    LET op_ty1 == operand_synth(op1, e)
        op_ty2 == operand_synth(op2, e)
    IN  IF op_ty2.tag = "Err"
          THEN Ret(op_ty2, <<"synth op2">>)
        ELSE IF op_ty1.tag = "Err"
          THEN Ret(op_ty1, <<"synth op2", "synth op1">>)
        ELSE Ret(Ok(<<op_ty1.ty, op_ty2.ty>>), <<"synth op2", "synth op1">>)

\* BinApp: synthesize the types of the operands, left then right; each `?`
\* returns the operand's error at once.
BinAppOperands(op1, op2, e) ==
    LET op_ty1 == operand_synth(op1, e)
        op_ty2 == operand_synth(op2, e)
    IN  IF op_ty1.tag = "Err"
          THEN Ret(op_ty1, <<"synth op1">>)
        ELSE IF op_ty2.tag = "Err"
          THEN Ret(op_ty2, <<"synth op1", "synth op2">>)
        ELSE Ret(Ok(<<op_ty1.ty, op_ty2.ty>>), <<"synth op1", "synth op2">>)

\* Faulty variant of BinAppChecks: the base check runs before the shape check.
BinAppChecks_BaseFirst(op_ty, op_ty1, op_ty2) ==
    IF ~has_base(op_ty1, op_ty)
      THEN Ret(Err(BaseMismatch(op_ty, op_ty1)), <<"has_base">>)
    ELSE IF ~shape_eq(op_ty1, op_ty2)
      THEN Ret(Err(ShapeMismatch(op_ty1, op_ty2)), <<"has_base", "shape_eq">>)
    ELSE Ret(Passed, <<"has_base", "shape_eq">>)

\* Faulty variant of BinAppChecks: BaseMismatch reports the right operand's
\* type.
BinAppChecks_FoundRight(op_ty, op_ty1, op_ty2) ==
    IF ~shape_eq(op_ty1, op_ty2)
      THEN Ret(Err(ShapeMismatch(op_ty1, op_ty2)), <<"shape_eq">>)
    ELSE IF ~has_base(op_ty1, op_ty)
      THEN Ret(Err(BaseMismatch(op_ty, op_ty2)), <<"shape_eq", "has_base">>)
    ELSE Ret(Passed, <<"shape_eq", "has_base">>)

\* Faulty variant of BinAppChecks: the shape check is left out.
BinAppChecks_NoShapeCheck(op_ty, op_ty1, op_ty2) ==
    IF ~has_base(op_ty1, op_ty)
      THEN Ret(Err(BaseMismatch(op_ty, op_ty1)), <<"shape_eq", "has_base">>)
      ELSE Ret(Passed, <<"shape_eq", "has_base">>)

\* BinApp: the operands have the same shape, and the left one has the
\* operator's operand type as base.
BinAppChecks(op_ty, op_ty1, op_ty2) ==
    IF ~shape_eq(op_ty1, op_ty2)
      THEN Ret(Err(ShapeMismatch(op_ty1, op_ty2)), <<"shape_eq">>)
    ELSE IF ~has_base(op_ty1, op_ty)
      THEN Ret(Err(BaseMismatch(op_ty, op_ty1)), <<"shape_eq", "has_base">>)
    ELSE Ret(Passed, <<"shape_eq", "has_base">>)

\* Faulty variant of BinAppResult: the operands are swapped in the predicate.
BinAppResult_Swapped(bin_op, ret_ty, op1, op2, e) ==
    LET p1 == resolve_operand(e, op1)
        p2 == resolve_operand(e, op2)
    IN  Ret(Ok(Refined(ret_ty,
                       PredEq(PVar(Bound), ret_ty, BinaryOp(bin_op, p2, p1)))),
            <<"resolve op1", "resolve op2">>)

\* BinApp: resolve the operands and return { b : B | b == (op1 bin_op op2) }.
BinAppResult(bin_op, ret_ty, op1, op2, e) ==
    LET p1 == resolve_operand(e, op1)
        p2 == resolve_operand(e, op2)
    IN  Ret(Ok(Refined(ret_ty,
                       PredEq(PVar(Bound), ret_ty, BinaryOp(bin_op, p1, p2)))),
            <<"resolve op1", "resolve op2">>)

\* Rvalue::BinApp(bin_op, op1, op2)
SynthBinApp(bin_op, op1, op2, e) ==
    LET sig == BinOpSig(bin_op)
        tys == BinAppOperands(op1, op2, e)
        check == BinAppChecks(sig.param_ty, tys.out.ty[1], tys.out.ty[2])
        res == BinAppResult(bin_op, sig.ret_ty, op1, op2, e)
    IN  IF sig = Unreachable
          THEN Ret(Panic, <<>>)
        ELSE IF tys.out.tag = "Err"
          THEN tys
        ELSE IF check.out.tag = "Err"
          THEN Ret(check.out, tys.calls \o check.calls)
        ELSE Ret(res.out, tys.calls \o check.calls \o res.calls)

\* fn synth(&self, env): match self
synth(rv, e) ==
    CASE rv.tag = "Use" -> SynthUse(rv.op, e)
      [] rv.tag = "UnApp" -> SynthUnApp(rv.un_op, rv.op, e)
      [] rv.tag = "BinApp" -> SynthBinApp(rv.bin_op, rv.op1, rv.op2, e)

----------------------------------------------------------------------------
(* parser Variable: #[derive(Hash, Eq, PartialEq)] struct Variable(&str, Range<usize>) *)

Names == {"a", "b"}
Spans == [start : 0..MaxPos, end : 0..MaxPos]
Variables == [name : Names, span : Spans]

\* Faulty variant of VariableEq: only the names are compared.
VariableEq_NameOnly(v, w) == v.name = w.name

\* Derived PartialEq: every field is compared, in order.
VariableEq(v, w) == v.name = w.name /\ v.span = w.span

\* Derived Hash: every field is fed to the hasher, in order.
VariableHashFeed(v) == <<v.name, v.span.start, v.span.end>>

----------------------------------------------------------------------------
(* State machine *)

NoVar == [name |-> "a", span |-> [start |-> 0, end |-> 0]]
NoCmp == [tag |-> "NotRun"]
NoRvalue == [tag |-> "Use", op |-> Constant(BoolLit(TRUE))]
NoEnv == [l \in Locals |-> Refined(BoolTy, TruePred)]

Init ==
    /\ rvalue \in Rvalues
    /\ env \in Envs
    /\ result = NotRun
    /\ calls = <<>>
    /\ va = NoVar /\ vb = NoVar /\ cmp = NoCmp

Apply(r) ==
    /\ result' = r.out
    /\ calls' = r.calls
    /\ UNCHANGED <<rvalue, env, va, vb, cmp>>

DoUse ==
    /\ result = NotRun
    /\ rvalue.tag = "Use"
    /\ Apply(synth(rvalue, env))

DoUnApp ==
    /\ result = NotRun
    /\ rvalue.tag = "UnApp"
    /\ Apply(synth(rvalue, env))

DoBinApp ==
    /\ result = NotRun
    /\ rvalue.tag = "BinApp"
    /\ Apply(synth(rvalue, env))

Next == DoUse \/ DoUnApp \/ DoBinApp

Spec == Init /\ [][Next]_vars

\* Comparing and hashing two parser variables.
InitVariable ==
    /\ va \in Variables /\ vb \in Variables
    /\ cmp = NoCmp
    /\ rvalue = NoRvalue /\ env = NoEnv /\ result = NotRun /\ calls = <<>>

\* A hasher gives equal hashes to equal feeds; unequal feeds may collide.
HashEqOutcomes(v, w) ==
    IF VariableHashFeed(v) = VariableHashFeed(w) THEN {TRUE} ELSE {TRUE, FALSE}

Compare ==
    /\ cmp = NoCmp
    /\ \E h \in HashEqOutcomes(va, vb) :
          cmp' = [tag |-> "Done", eq |-> VariableEq(va, vb), hash_eq |-> h]
    /\ UNCHANGED <<rvalue, env, result, calls, va, vb>>

NextVariable == Compare

SpecVariable == InitVariable /\ [][NextVariable]_vars

----------------------------------------------------------------------------
(* Vocabulary of the properties *)

Ran == result # NotRun
IsUse == rvalue.tag = "Use"
IsUnApp == rvalue.tag = "UnApp"
IsBinApp == rvalue.tag = "BinApp"

\* The operand type a binary / unary operator requires, read off its tag.
RequiredBin(o) == IF o.tag \in EqTags THEN o.ty ELSE IntTy(o.sign, o.size)
RequiredUn(o) == IF o.tag = "Not" THEN BoolTy ELSE IntTy(o.sign, o.size)

\* The term an operand stands for in a predicate.
Term(operand) ==
    IF operand.tag = "Constant"
      THEN [tag |-> "Lit", lit |-> operand.lit]
      ELSE [tag |-> "Var", var |-> [tag |-> "Local", local |-> operand.local]]

\* { b : base | b == rhs }
Singleton(base, rhs) ==
    [tag |-> "Refined", base |-> base,
     pred |-> [tag |-> "BinaryOp", op |-> [tag |-> "Eq", ty |-> base],
               lhs |-> [tag |-> "Var", var |-> [tag |-> "Bound"]], rhs |-> rhs]]

BinTerm(o, l, r) == [tag |-> "BinaryOp", op |-> o, lhs |-> l, rhs |-> r]
UnTerm(o, a) == [tag |-> "UnaryOp", op |-> o, arg |-> a]

\* The synthesized types of the operands of the rvalue.
Left == operand_synth(rvalue.op1, env)
Right == operand_synth(rvalue.op2, env)
Only == operand_synth(rvalue.op, env)

BothTyped == Left.tag = "Ok" /\ Right.tag = "Ok"
BothHaveBase(b) == BothTyped /\ has_base(Left.ty, b) /\ has_base(Right.ty, b)

IsPrefix(s, t) == Len(s) <= Len(t) /\ \A i \in 1..Len(s) : s[i] = t[i]
Called(c) == \E i \in 1..Len(calls) : calls[i] = c

BinOrder == <<"synth op1", "synth op2", "shape_eq", "has_base",
              "resolve op1", "resolve op2">>
UnOrder == <<"synth op", "has_base", "resolve op">>

----------------------------------------------------------------------------
(* C1 *)

\* C1: an arithmetic operator (Add, Sub, Mul, Div, Rem of a sign and size)
\* applied to two operands whose types both have base Int(sign, size)
\* synthesizes exactly { b : Int(sign, size) | b == (left op right) }, the
\* operands resolved to a literal term or a variable term, in left/right order.
C1_ArithmeticSynth ==
    (Ran /\ IsBinApp /\ rvalue.bin_op.tag \in ArithTags
         /\ BothHaveBase(RequiredBin(rvalue.bin_op)))
    => result = Ok(Singleton(IntTy(rvalue.bin_op.sign, rvalue.bin_op.size),
                             BinTerm(rvalue.bin_op, Term(rvalue.op1),
                                     Term(rvalue.op2))))

\* An addition of a literal and a local has been synthesized.
C1_Witness ==
    /\ Ran /\ IsBinApp /\ rvalue.bin_op.tag = "Add"
    /\ rvalue.op1.tag = "Constant" /\ rvalue.op2.tag = "Local"
    /\ BothHaveBase(RequiredBin(rvalue.bin_op))
    /\ result.tag = "Ok"

----------------------------------------------------------------------------
(* C3 *)

\* C3: for an operator other than And/Or and two operands that both have a
\* type but not the same shape, synthesis fails with ShapeMismatch{expected:
\* the left type, found: the right type}, and has_base has not been called.
C3_ShapeMismatchFirst ==
    (Ran /\ IsBinApp /\ rvalue.bin_op \in MirBinOps
         /\ BothTyped /\ ~shape_eq(Left.ty, Right.ty))
    => /\ result = [tag |-> "Err", span |-> <<>>,
                    kind |-> [tag |-> "ShapeMismatch",
                              expected |-> Left.ty, found |-> Right.ty]]
       /\ ~Called("has_base")

\* A function-typed left operand, which also lacks the operator's base,
\* met a scalar right operand.
C3_Witness ==
    /\ Ran /\ IsBinApp /\ rvalue.bin_op \in MirBinOps /\ BothTyped
    /\ Left.ty.tag = "Func" /\ Right.ty.tag = "Refined"
    /\ ~has_base(Left.ty, RequiredBin(rvalue.bin_op))
    /\ result.tag = "Err" /\ result.kind.tag = "ShapeMismatch"

----------------------------------------------------------------------------
(* C4 *)

\* C4: for an operator other than And/Or and two operands of the same shape
\* whose left type lacks the operator's operand base type, synthesis fails
\* with BaseMismatch{expected: that base type, found: the left operand's
\* whole type}.
C4_BaseMismatch ==
    (Ran /\ IsBinApp /\ rvalue.bin_op \in MirBinOps
         /\ BothTyped /\ shape_eq(Left.ty, Right.ty)
         /\ ~has_base(Left.ty, RequiredBin(rvalue.bin_op)))
    => result = [tag |-> "Err", span |-> <<>>,
                 kind |-> [tag |-> "BaseMismatch",
                           expected |-> RequiredBin(rvalue.bin_op),
                           found |-> Left.ty]]

\* Two Int(Signed, 64) operands were fed into Add(Signed, 32).
C4_Witness ==
    /\ Ran /\ IsBinApp
    /\ rvalue.bin_op = [tag |-> "Add", sign |-> "Signed", size |-> 32]
    /\ BothHaveBase(IntTy("Signed", 64))
    /\ result.tag = "Err" /\ result.kind.tag = "BaseMismatch"

----------------------------------------------------------------------------
(* C5 *)

\* A type with its refinement predicates replaced by each predicate the
\* environment can carry; an environment equal to e up to those predicates.
Repredicated(ty) ==
    IF ty.tag = "Refined" THEN {Refined(ty.base, p) : p \in EnvPreds} ELSE {ty}
UpToPredicates(e) ==
    {f \in [Locals -> UNION {Repredicated(e[l]) : l \in Locals}] :
        \A l \in Locals : f[l] \in Repredicated(e[l])}

\* C5: an ordering operator (Lt, Gt, Lte, Gte of a sign and size) on two
\* operands of base Int(sign, size), and Eq(ty) / Neq(ty) on two operands of
\* base ty, synthesize exactly { b : Bool | b == (left op right) }; the
\* outcome is the same in every environment that differs from this one only
\* in the refinement predicates of the locals' types.
C5_ComparisonSynth ==
    (Ran /\ IsBinApp /\ rvalue.bin_op.tag \in OrdTags \cup EqTags
         /\ BothHaveBase(RequiredBin(rvalue.bin_op)))
    => /\ result = Ok(Singleton(BoolTy,
                                BinTerm(rvalue.bin_op, Term(rvalue.op1),
                                        Term(rvalue.op2))))
       /\ \A f \in UpToPredicates(env) : synth(rvalue, f).out = result

\* Lt(Signed, 32) was synthesized on two locals whose types carry different
\* predicates.
C5_Witness ==
    /\ Ran /\ IsBinApp
    /\ rvalue.bin_op = [tag |-> "Lt", sign |-> "Signed", size |-> 32]
    /\ rvalue.op1 = Local("x") /\ rvalue.op2 = Local("y")
    /\ env["x"] = Refined(IntTy("Signed", 32), TruePred)
    /\ env["y"] = Refined(IntTy("Signed", 32), SelfPred)
    /\ result.tag = "Ok" /\ result.ty.base = BoolTy

----------------------------------------------------------------------------
(* C6 *)

\* C6: a unary operator on an operand whose type has the operator's base
\* (Int(sign, size) for Neg(sign, size), Bool for Not) synthesizes exactly
\* { b : B | b == (op operand) } with B that same base type.
C6_UnarySynth ==
    (Ran /\ IsUnApp /\ Only.tag = "Ok"
         /\ has_base(Only.ty, RequiredUn(rvalue.un_op)))
    => result = Ok(Singleton(RequiredUn(rvalue.un_op),
                             UnTerm(rvalue.un_op, Term(rvalue.op))))

\* Neg(Signed, 32) of the literal 5 yields
\* { b : Int(Signed, 32) | b == -5 }.
C6_Witness ==
    /\ IsUnApp
    /\ rvalue.un_op = [tag |-> "Neg", sign |-> "Signed", size |-> 32]
    /\ rvalue.op = Constant(IntLit(5, "Signed", 32))
    /\ result = Ok(Singleton(IntTy("Signed", 32),
                             UnTerm(rvalue.un_op,
                                    [tag |-> "Lit", lit |-> IntLit(5, "Signed", 32)])))

----------------------------------------------------------------------------
(* C7 *)

\* C7: a unary operator on an operand that has a type lacking the operator's
\* base fails with BaseMismatch{expected: that base type, found: the operand's
\* whole type}, and the operand has not been resolved.
C7_UnaryBaseMismatch ==
    (Ran /\ IsUnApp /\ Only.tag = "Ok"
         /\ ~has_base(Only.ty, RequiredUn(rvalue.un_op)))
    => /\ result = [tag |-> "Err", span |-> <<>>,
                    kind |-> [tag |-> "BaseMismatch",
                              expected |-> RequiredUn(rvalue.un_op),
                              found |-> Only.ty]]
       /\ ~Called("resolve op")

\* Neg was applied to a refined integer of another width than its tag.
C7_Witness ==
    /\ Ran /\ IsUnApp /\ rvalue.un_op.tag = "Neg" /\ Only.tag = "Ok"
    /\ Only.ty.tag = "Refined" /\ Only.ty.base.tag = "Int"
    /\ Only.ty.base.sign = rvalue.un_op.sign
    /\ Only.ty.base.size # rvalue.un_op.size
    /\ result.tag = "Err"

----------------------------------------------------------------------------
(* C8 *)

\* C8: synthesis of a BinApp whose operator is And or Or aborts: it returns
\* neither a type nor an error, whatever the operands, and synthesizes none.
C8_LogicalAborts ==
    (Ran /\ IsBinApp /\ rvalue.bin_op.tag \in LogicTags)
    => result = [tag |-> "Panic"] /\ calls = <<>>

\* And was met with a left operand that has no type and a right operand that
\* is a function.
C8_Witness ==
    /\ Ran /\ IsBinApp /\ rvalue.bin_op.tag = "And"
    /\ Left.tag = "Err" /\ Right.tag = "Ok" /\ Right.ty.tag = "Func"

----------------------------------------------------------------------------
(* C9 *)

\* C9: the calls of one synthesis are an initial part of the fixed order
\* (left operand, right operand, shape_eq, has_base, resolution) and a failure
\* ends it. A left operand whose synthesis fails makes BinApp return that
\* error with the right operand not synthesized; a right operand whose
\* synthesis fails makes BinApp return that error with neither check run; a
\* UnApp operand's error is returned unchanged; Use returns the operand's own
\* outcome. What is returned is a type or an error, never both.
C9_FirstFailureFinal ==
    Ran =>
    /\ IsBinApp => IsPrefix(calls, BinOrder)
    /\ IsUnApp => IsPrefix(calls, UnOrder)
    /\ result.tag = "Ok" =>
          /\ DOMAIN result = {"tag", "ty"}
          /\ calls = IF IsBinApp THEN BinOrder
                     ELSE IF IsUnApp THEN UnOrder ELSE <<"synth op">>
    /\ result.tag = "Err" =>
          /\ DOMAIN result = {"tag", "kind", "span"}
          /\ ~Called("resolve op") /\ ~Called("resolve op1")
          /\ ~Called("resolve op2")
          /\ result.kind.tag = "ShapeMismatch" => calls[Len(calls)] = "shape_eq"
          /\ result.kind.tag = "BaseMismatch" => calls[Len(calls)] = "has_base"
    /\ (IsBinApp /\ Called("synth op1") /\ Left.tag = "Err") =>
          result = Left /\ calls = <<"synth op1">>
    /\ (IsBinApp /\ Called("synth op2") /\ Right.tag = "Err") =>
          result = Right /\ calls = <<"synth op1", "synth op2">>
    /\ (IsUnApp /\ Only.tag = "Err") => result = Only
    /\ IsUse => result = Only

\* The right operand of a permitted operator had no type while the left one
\* was a function, so that the shape check would have failed too.
C9_Witness ==
    /\ Ran /\ IsBinApp /\ rvalue.bin_op \in MirBinOps
    /\ Left.tag = "Ok" /\ Left.ty.tag = "Func" /\ Right.tag = "Err"
    /\ result.tag = "Err" /\ result.kind.tag = "OperandError"

----------------------------------------------------------------------------
(* C10 *)

\* C10: whenever BinApp synthesis succeeds, both operands' types have the
\* operator's operand base type, the right one too.
C10_BothOperandsHaveBase ==
    (Ran /\ IsBinApp /\ result.tag = "Ok")
    => BothHaveBase(RequiredBin(rvalue.bin_op))

\* Eq(Bool) succeeded on a literal and a local of unrefined type.
C10_Witness ==
    /\ Ran /\ IsBinApp /\ result.tag = "Ok"
    /\ rvalue.bin_op = [tag |-> "Eq", ty |-> BoolTy]
    /\ rvalue.op1.tag = "Local" /\ rvalue.op2.tag = "Constant"
    /\ Left.ty = Base(BoolTy)

----------------------------------------------------------------------------
(* C2 *)

\* C2 as stated: two variables are equal, and hash equally, if and only if
\* their names are equal; the span plays no part.
C2_EqualIffNamesEqual ==
    cmp.tag = "Done" =>
        /\ cmp.eq <=> (va.name = vb.name)
        /\ cmp.hash_eq <=> (va.name = vb.name)

\* C2: two variables are equal if and only if their names are equal and
\* their spans are equal (two variables of one name and different spans are
\* unequal), and equal variables hash equally.
C2_EqualIffNameAndSpanEqual ==
    cmp.tag = "Done" =>
        /\ cmp.eq <=> (va.name = vb.name /\ va.span.start = vb.span.start
                                         /\ va.span.end = vb.span.end)
        /\ cmp.eq => cmp.hash_eq

\* Two variables of the same name and different spans were compared.
C2_Witness ==
    /\ cmp.tag = "Done"
    /\ va.name = vb.name /\ va.span # vb.span
    /\ ~cmp.eq

====
